---- MODULE Spec2Model ----
(***************************************************************************)
(* Model of the Gilt pallet (frame/gilt/src/lib.rs): bid queues per        *)
(* duration, the QueueTotals aggregate, the active gilts and ActiveTotal,  *)
(* and the ledger the pallet drives through the Currency trait.            *)
(***************************************************************************)
EXTENDS Integers, Sequences, FiniteSets, TLC

\* ---------------------------------------------------------------- Config
\* The pallet's configuration constants (Config trait).
QueueCount == 2
MaxQueueLen == 1
Period == 1
MinFreeze == 3
IntakePeriod == 2
MaxIntakeBids == 2

\* ---------------------------------------------------------------- Bounds
\* Perquintill's accuracy (parts of one), scaled down for model checking.
Accuracy == 100
\* Free balance every account starts with.
InitBalance == 3
\* Largest amount a call may name.
MaxAmount == 3
\* Largest max_bids a direct enlarge call may name.
MaxBids == 2
\* Largest budget a direct enlarge call may name.
MaxBudget == 3
\* Last block the host produces.
MaxBlock == 3
\* Largest number of gilts ever issued.
MaxIndex == 2
\* Most that external deposits add to the initial issuance.
MaxInflation == 1
\* Largest total issuance, in hundreds, that the intake computation is given.
MaxHundreds == 10

Accounts == {"a", "b"}

Min(x, y) == IF x < y THEN x ELSE y
Max(x, y) == IF x > y THEN x ELSE y

\* ------------------------------------------------------------ Perquintill
\* Balance::saturating_sub
SaturatingSub(x, y) == IF x > y THEN x - y ELSE 0

\* Perquintill::saturating_add / saturating_sub: clamp to [0, 1].
PerSaturatingAdd(p, q) == Min(p + q, Accuracy)
PerSaturatingSub(p, q) == IF p > q THEN p - q ELSE 0

\* ceil(x / f)
DivCeil(x, f) == (x \div f) + (IF x % f = 0 THEN 0 ELSE 1)

\* Perquintill::from_rational_approximation(n, d): q is raised to one, p is
\* capped by q, both are scaled to fit the inner type, the quotient rounds down.
FromRationalApproximation(n, d) ==
    LET q == Max(d, 1)
        p == Min(n, q)
        factor == Max(DivCeil(q, Accuracy), 1)
        q2 == DivCeil(q, factor)
        p2 == p \div factor
    IN  (p2 * Accuracy) \div q2

\* Perquintill * balance: the whole multiples, plus the remainder's share
\* rounded to the nearest.
PerMul(part, x) ==
    LET rem == (x % Accuracy) * part
    IN  (x \div Accuracy) * part + (rem \div Accuracy)
          + (IF rem % Accuracy > Accuracy \div 2 THEN 1 ELSE 0)

\* nongilt_issuance, gilt_issuance and effective_issuance, as on_initialize,
\* thaw and enlarge all compute them.
EffectiveIssuance(total_issuance, totals) ==
    LET nongilt_issuance == SaturatingSub(total_issuance, totals.frozen)
        gilt_issuance == PerMul(totals.proportion, nongilt_issuance)
    IN  gilt_issuance + nongilt_issuance

\* ------------------------------------------------------------------ State
VARIABLES
    queues,         \* Queues: duration -> bids, newest first
    queueTotals,    \* QueueTotals: sequence of <<count, amount>>
    activeTotal,    \* ActiveTotal
    active,         \* Active: index -> gilt
    free,           \* ledger: free balance of every account
    reserved,       \* ledger: reserved balance of every account
    totalIssuance,  \* ledger: total issuance
    now,            \* frame_system block number
    failedCall      \* the call of the last step if it returned an error or
                    \* panicked, "None" if it succeeded

vars == <<queues, queueTotals, activeTotal, active, free, reserved,
          totalIssuance, now, failedCall>>

GiltBid(amount, who) == [amount |-> amount, who |-> who]

ActiveGilt(proportion, amount, who, expiry) ==
    [proportion |-> proportion, amount |-> amount, who |-> who, expiry |-> expiry]

\* What a call leaves in failedCall.
Outcome(op, result) == IF result = "Ok" THEN "None" ELSE op

Init ==
    /\ queues = [d \in 1..QueueCount |-> <<>>]
    /\ queueTotals = <<>>
    /\ activeTotal = [frozen |-> 0, proportion |-> 0, index |-> 0, target |-> 0]
    /\ active = <<>>
    /\ free = [w \in Accounts |-> InitBalance]
    /\ reserved = [w \in Accounts |-> 0]
    /\ totalIssuance = InitBalance * Cardinality(Accounts)
    /\ now = 1
    /\ failedCall = "None"

\* ----------------------------------------------------------------- Ledger
\* Currency::reserve succeeds when the free balance covers the amount.
CanReserve(who, amount) == free[who] >= amount

\* Vec::resize(queue_count, (0, 0)) of QueueTotals.
Resize(qs) ==
    [i \in 1..QueueCount |-> IF i <= Len(qs) THEN qs[i] ELSE <<0, 0>>]

\* -------------------------------------------------------------- place_bid
PlaceBidError(who, amount, duration) ==
    IF ~(duration > 0) THEN "DurationTooSmall"
    ELSE IF ~(duration <= QueueCount) THEN "DurationTooBig"
    ELSE IF ~(amount >= MinFreeze) THEN "AmountTooSmall"
    ELSE IF ~(Resize(queueTotals)[QueueCount][1] < MaxQueueLen) THEN "QueueFull"
    ELSE IF ~CanReserve(who, amount) THEN "InsufficientBalance"
    ELSE "Ok"

\* A faulty PlaceBidQueueTotals, with mutate in place of try_mutate: the count
\* raised before a failing reserve is stored. C5 must tell it from the code.
PlaceBidQueueTotals_Mutate(who, amount, duration) ==
    LET qs == Resize(queueTotals)
        counted == [qs EXCEPT ![QueueCount] = <<@[1] + 1, @[2]>>]
        summed == [counted EXCEPT ![QueueCount] = <<@[1], @[2] + amount>>]
    IN  CASE PlaceBidError(who, amount, duration) = "Ok" -> summed
          [] PlaceBidError(who, amount, duration) = "InsufficientBalance" -> counted
          [] OTHER -> queueTotals

\* QueueTotals after the try_mutate of place_bid: the closure's changes are
\* stored only when it returns Ok.
PlaceBidQueueTotals(who, amount, duration) ==
    LET qs == Resize(queueTotals)
        counted == [qs EXCEPT ![QueueCount] = <<@[1] + 1, @[2]>>]
        summed == [counted EXCEPT ![QueueCount] = <<@[1], @[2] + amount>>]
    IN  IF PlaceBidError(who, amount, duration) = "Ok" THEN summed ELSE queueTotals

PlaceBid(who, amount, duration) ==
    LET err == PlaceBidError(who, amount, duration) IN
    /\ queueTotals' = PlaceBidQueueTotals(who, amount, duration)
    /\ IF err = "Ok"
       THEN /\ free' = [free EXCEPT ![who] = @ - amount]
            /\ reserved' = [reserved EXCEPT ![who] = @ + amount]
            /\ queues' = [queues EXCEPT ![duration] = <<GiltBid(amount, who)>> \o @]
       ELSE UNCHANGED <<free, reserved, queues>>
    /\ failedCall' = Outcome("place_bid", err)
    /\ UNCHANGED <<activeTotal, active, totalIssuance, now>>

\* Currency::unreserve moves at most the reserved balance back to free.
Unreserved(who, amount) == Min(amount, reserved[who])

\* ------------------------------------------------------------ retract_bid
\* q.iter().position(|i| i == &bid): the first equal bid from the front, or 0.
Position(q, bid) ==
    IF \E i \in 1..Len(q) : q[i] = bid
    THEN CHOOSE i \in 1..Len(q) : q[i] = bid /\ \A j \in 1..(i - 1) : q[j] # bid
    ELSE 0

\* Vec::remove(pos)
Remove(q, pos) == SubSeq(q, 1, pos - 1) \o SubSeq(q, pos + 1, Len(q))

RetractBidError(who, amount, duration) ==
    IF ~(duration > 0) THEN "DurationTooSmall"
    ELSE IF ~(duration <= QueueCount) THEN "DurationTooBig"
    ELSE IF ~(amount >= MinFreeze) THEN "AmountTooSmall"
    ELSE IF Position(queues[duration], GiltBid(amount, who)) = 0 THEN "NotFound"
    ELSE "Ok"

\* QueueTotals after the mutate of retract_bid, given the bucket's new length.
\* The last entry's amount is the sum over all pending bids (place_bid adds
\* every bid to it), so the subtraction does not underflow.
RetractBidQueueTotals(new_len, amount) ==
    LET qs == Resize(queueTotals)
    IN  [qs EXCEPT ![QueueCount] = <<new_len, @[2] - amount>>]

RetractBid(who, amount, duration) ==
    LET err == RetractBidError(who, amount, duration)
        bid == GiltBid(amount, who)
    IN
    /\ IF err = "Ok"
       THEN LET q == Remove(queues[duration], Position(queues[duration], bid)) IN
            /\ queues' = [queues EXCEPT ![duration] = q]
            /\ queueTotals' = RetractBidQueueTotals(Len(q), amount)
            /\ free' = [free EXCEPT ![who] = @ + Unreserved(who, amount)]
            /\ reserved' = [reserved EXCEPT ![who] = @ - Unreserved(who, amount)]
       ELSE UNCHANGED <<queues, queueTotals, free, reserved>>
    /\ failedCall' = Outcome("retract_bid", err)
    /\ UNCHANGED <<activeTotal, active, totalIssuance, now>>

\* ------------------------------------------------------------- set_target
\* The targets the admin origin sets.
Targets == {0, Accuracy \div 2}

SetTarget(target) ==
    /\ activeTotal' = [activeTotal EXCEPT !.target = target]
    /\ failedCall' = Outcome("set_target", "Ok")
    /\ UNCHANGED <<queues, queueTotals, active, free, reserved, totalIssuance, now>>

\* ---------------------------------------------------------------- enlarge
\* A faulty IssueTotals that leaves totals.proportion alone. C4 must tell it
\* from the code.
IssueTotals_KeepProportion(totals, total_issuance, amount) ==
    [totals EXCEPT !.frozen = @ + amount, !.index = @ + 1]

\* A faulty IssueTotals that does not advance totals.index. C16 must tell it
\* from the code.
IssueTotals_KeepIndex(totals, total_issuance, amount) ==
    [totals EXCEPT !.frozen = @ + amount,
                   !.proportion = PerSaturatingAdd(@,
                       FromRationalApproximation(amount,
                           EffectiveIssuance(total_issuance, totals)))]

\* Lines 361-376: the bid's proportion of the effective issuance, the totals
\* with the gilt added, and the gilt stored under the old totals.index.
IssueTotals(totals, total_issuance, amount) ==
    LET proportion == FromRationalApproximation(amount,
                          EffectiveIssuance(total_issuance, totals))
    IN  [totals EXCEPT !.frozen = @ + amount,
                       !.proportion = PerSaturatingAdd(@, proportion),
                       !.index = @ + 1]

IssueGilt(totals, total_issuance, amount, who, expiry) ==
    ActiveGilt(FromRationalApproximation(amount,
                   EffectiveIssuance(total_issuance, totals)),
               amount, who, expiry)

\* Active::insert
Insert(map, index, gilt) ==
    [i \in (DOMAIN map) \cup {index} |-> IF i = index THEN gilt ELSE map[i]]

\* The bid a pop hands to the loop body, cut down to `remaining` on a split.
TakenBid(popped, remaining) ==
    IF remaining < popped.amount THEN GiltBid(remaining, popped.who) ELSE popped

\* The queue after q.pop() and, on a split, q.push(overflow).
QueueAfterPop(q, remaining) ==
    LET popped == q[Len(q)]
        rest == SubSeq(q, 1, Len(q) - 1)
    IN  IF remaining < popped.amount
        THEN Append(rest, GiltBid(popped.amount - remaining, popped.who))
        ELSE rest

\* The loop state of enlarge: s.totals, s.qs, s.queues, s.active, s.remaining
\* and s.bids_taken.
\* One pass of the while-let body (lines 347-379) on bucket `periods`.
TakeBid(s, periods, total_issuance, expiry) ==
    LET q == s.queues[periods]
        bid == TakenBid(q[Len(q)], s.remaining)
    IN  [totals |-> IssueTotals(s.totals, total_issuance, bid.amount),
         qs |-> [s.qs EXCEPT ![periods] =
                    <<@[1], SaturatingSub(@[2], bid.amount)>>],
         queues |-> [s.queues EXCEPT ![periods] = QueueAfterPop(q, s.remaining)],
         active |-> Insert(s.active, s.totals.index,
                       IssueGilt(s.totals, total_issuance, bid.amount, bid.who, expiry)),
         remaining |-> s.remaining - bid.amount,
         bids_taken |-> s.bids_taken + 1]

\* The break condition of both loops (lines 380 and 386).
Stop(s, max_bids) == s.remaining = 0 \/ s.bids_taken = max_bids

\* The while-let loop over one bucket (lines 347-383).
RECURSIVE DrainQueue(_, _, _, _, _)
DrainQueue(s, periods, total_issuance, expiry, max_bids) ==
    IF Len(s.queues[periods]) = 0 THEN s
    ELSE LET t == TakeBid(s, periods, total_issuance, expiry)
         IN  IF Stop(t, max_bids) THEN t
             ELSE DrainQueue(t, periods, total_issuance, expiry, max_bids)

\* The buckets the for loop visits after `periods`, in its order.
NextPeriods(periods) == periods - 1

\* The for loop over the buckets (lines 340-389), from bucket `periods` on.
RECURSIVE EnlargeFrom(_, _, _, _, _)
EnlargeFrom(s, periods, total_issuance, block, max_bids) ==
    IF periods < 1 \/ periods > QueueCount THEN s
    ELSE IF s.qs[periods][1] = 0
         THEN EnlargeFrom(s, NextPeriods(periods), total_issuance, block, max_bids)
         ELSE LET expiry == block + Period * periods
                  t == DrainQueue(s, periods, total_issuance, expiry, max_bids)
                  u == [t EXCEPT !.qs[periods] = <<Len(t.queues[periods]), @[2]>>]
              IN  IF Stop(u, max_bids) THEN u
                  ELSE EnlargeFrom(u, NextPeriods(periods), total_issuance, block, max_bids)

\* qs[periods as usize - 1] on a QueueTotals that was never resized is out of
\* bounds: the call panics and nothing is stored.
EnlargePanics == Len(queueTotals) < QueueCount

\* enlarge(amount, max_bids) from the current state, at block number `block`.
EnlargeResult(amount, max_bids, block) ==
    EnlargeFrom([totals |-> activeTotal, qs |-> queueTotals, queues |-> queues,
                 active |-> active, remaining |-> amount, bids_taken |-> 0],
                QueueCount, totalIssuance, block, max_bids)

Enlarge(amount, max_bids) ==
    /\ IF EnlargePanics
       THEN /\ UNCHANGED <<activeTotal, queueTotals, queues, active>>
            /\ failedCall' = Outcome("enlarge", "Panic")
       ELSE LET r == EnlargeResult(amount, max_bids, now) IN
            /\ r.totals.index <= MaxIndex
            /\ activeTotal' = r.totals
            /\ queueTotals' = r.qs
            /\ queues' = r.queues
            /\ active' = r.active
            /\ failedCall' = Outcome("enlarge", "Ok")
    /\ UNCHANGED <<free, reserved, totalIssuance, now>>

\* ---------------------------------------------------------- on_initialize
\* A faulty Intake that sizes the round by the total issuance rather than the
\* effective issuance. C14 must tell it from the code.
Intake_OfTotalIssuance(totals, total_issuance) ==
    PerMul(PerSaturatingSub(totals.target, totals.proportion), total_issuance)

\* The intake on_initialize hands to enlarge (lines 175-182).
Intake(totals, total_issuance) ==
    LET missing == PerSaturatingSub(totals.target, totals.proportion)
    IN  PerMul(missing, EffectiveIssuance(total_issuance, totals))

\* Whether block n runs an intake (lines 172-174).
IntakeDue(n) == n % IntakePeriod = 0 /\ activeTotal.proportion < activeTotal.target

\* The host starts block now + 1 and runs the hook with that block number.
OnInitialize ==
    LET n == now + 1 IN
    /\ n <= MaxBlock
    /\ IF IntakeDue(n)
       THEN IF EnlargePanics
            THEN /\ UNCHANGED <<activeTotal, queueTotals, queues, active, now>>
                 /\ failedCall' = Outcome("on_initialize", "Panic")
            ELSE LET r == EnlargeResult(Intake(activeTotal, totalIssuance),
                                        MaxIntakeBids, n) IN
                 /\ r.totals.index <= MaxIndex
                 /\ activeTotal' = r.totals
                 /\ queueTotals' = r.qs
                 /\ queues' = r.queues
                 /\ active' = r.active
                 /\ now' = n
                 /\ failedCall' = Outcome("on_initialize", "Ok")
       ELSE /\ UNCHANGED <<activeTotal, queueTotals, queues, active>>
            /\ now' = n
            /\ failedCall' = Outcome("on_initialize", "Ok")
    /\ UNCHANGED <<free, reserved, totalIssuance>>

\* ------------------------------------------------------------------- thaw
\* A faulty ThawError that does not look at the expiry. C13 must tell it from
\* the code.
ThawError_IgnoreExpiry(who, index) ==
    IF index \notin DOMAIN active THEN "Unknown"
    ELSE IF ~(active[index].who = who) THEN "NotOwner"
    ELSE "Ok"

\* The ensure! chain of thaw (lines 273-282).
ThawError(who, index) ==
    IF index \notin DOMAIN active THEN "Unknown"
    ELSE IF ~(active[index].who = who) THEN "NotOwner"
    ELSE IF ~(now >= active[index].expiry) THEN "NotExpired"
    ELSE "Ok"

\* Active::remove
RemoveKey(map, index) == [i \in (DOMAIN map) \ {index} |-> map[i]]

\* gilt_value (lines 287-291), from the totals before the gilt is taken out.
GiltValue(gilt, totals, total_issuance) ==
    PerMul(gilt.proportion, EffectiveIssuance(total_issuance, totals))

\* The totals with the gilt taken out (lines 293-294).
\* A faulty ThawTotals that leaves totals.frozen alone. C3 must tell it from
\* the code.
ThawTotals_KeepFrozen(totals, gilt) ==
    [totals EXCEPT !.proportion = PerSaturatingSub(@, gilt.proportion)]

ThawTotals(totals, gilt) ==
    [totals EXCEPT !.frozen = SaturatingSub(@, gilt.amount),
                   !.proportion = PerSaturatingSub(@, gilt.proportion)]

\* The ledger after the branches of lines 297-314: what the owner has free and
\* reserved, and the total issuance.
ThawLedger(gilt, gilt_value) ==
    LET who == gilt.who IN
    IF gilt_value > gilt.amount
    THEN LET unreserved == Min(gilt.amount, reserved[who])
             amount == gilt_value - gilt.amount
         IN  [free |-> free[who] + unreserved + amount,
              reserved |-> reserved[who] - unreserved,
              totalIssuance |-> totalIssuance + amount]
    ELSE IF gilt_value < gilt.amount
    THEN LET rest == gilt.amount - gilt_value
             slashed == Min(rest, reserved[who])
             unreserved == Min(gilt_value, reserved[who] - slashed)
         IN  [free |-> free[who] + unreserved,
              reserved |-> reserved[who] - slashed - unreserved,
              totalIssuance |-> totalIssuance - slashed]
    ELSE [free |-> free[who], reserved |-> reserved[who],
          totalIssuance |-> totalIssuance]

Thaw(who, index) ==
    LET err == ThawError(who, index) IN
    /\ IF err = "Ok"
       THEN LET gilt == active[index]
                l == ThawLedger(gilt, GiltValue(gilt, activeTotal, totalIssuance))
            IN  /\ active' = RemoveKey(active, index)
                /\ activeTotal' = ThawTotals(activeTotal, gilt)
                /\ free' = [free EXCEPT ![gilt.who] = l.free]
                /\ reserved' = [reserved EXCEPT ![gilt.who] = l.reserved]
                /\ totalIssuance' = l.totalIssuance
       ELSE UNCHANGED <<active, activeTotal, free, reserved, totalIssuance>>
    /\ failedCall' = Outcome("thaw", err)
    /\ UNCHANGED <<queues, queueTotals, now>>

\* ----------------------------------------------------------------- Ledger
\* The ledger credits an account that takes no part in the auction (a reward,
\* say), which raises the total issuance.
Inflate ==
    /\ totalIssuance < InitBalance * Cardinality(Accounts) + MaxInflation
    /\ totalIssuance' = totalIssuance + 1
    /\ failedCall' = Outcome("deposit", "Ok")
    /\ UNCHANGED <<queues, queueTotals, activeTotal, active, free, reserved, now>>

Next ==
    \/ \E who \in Accounts, amount \in 1..MaxAmount, duration \in 0..(QueueCount + 1) :
          PlaceBid(who, amount, duration)
    \/ \E who \in Accounts, amount \in 1..MaxAmount, duration \in 0..(QueueCount + 1) :
          RetractBid(who, amount, duration)
    \/ \E target \in Targets : SetTarget(target)
    \/ \E amount \in 0..MaxBudget, max_bids \in 0..MaxBids : Enlarge(amount, max_bids)
    \/ OnInitialize
    \/ \E who \in Accounts, index \in 0..MaxIndex : Thaw(who, index)
    \/ Inflate

Spec == Init /\ [][Next]_vars

\* ================================================================ Claims
\* Sums and counts the claims are stated with.
RECURSIVE SumBids(_)
SumBids(q) == IF Len(q) = 0 THEN 0 ELSE q[1].amount + SumBids(Tail(q))

RECURSIVE SumAmounts(_, _)
SumAmounts(map, S) ==
    IF S = {} THEN 0
    ELSE LET i == CHOOSE i \in S : TRUE
         IN  map[i].amount + SumAmounts(map, S \ {i})

RECURSIVE SumShares(_, _)
SumShares(map, S) ==
    IF S = {} THEN 0
    ELSE LET i == CHOOSE i \in S : TRUE
         IN  map[i].proportion + SumShares(map, S \ {i})

LiveAmounts == SumAmounts(active, DOMAIN active)
LiveShares == SumShares(active, DOMAIN active)
LiveCount == Cardinality(DOMAIN active)

\* QueueTotals[d - 1], an entry that does not exist yet counting as (0, 0).
QueueTotalOf(d) == IF d <= Len(queueTotals) THEN queueTotals[d] ELSE <<0, 0>>

\* C1: in every reachable state, for every duration d in 1..QueueCount,
\* QueueTotals[d-1] = (number of bids in Queues[d], sum of their amounts).
C1_QueueTotalsMirrorQueues ==
    \A d \in 1..QueueCount :
        QueueTotalOf(d) = <<Len(queues[d]), SumBids(queues[d])>>

\* C2: a successful thaw of a gilt (share, amount, owner) computes
\* value = share * effective_issuance from the totals before the gilt is
\* subtracted, and has exactly the claimed ledger effects: value > amount
\* unreserves amount and mints value - amount; value < amount slashes
\* amount - value and unreserves value; value = amount unreserves amount and
\* mints and slashes nothing.
C2_ThawSettlesByValue ==
    [][\A who \in Accounts, index \in 0..MaxIndex :
          (ThawError(who, index) = "Ok" /\ Thaw(who, index)) =>
              LET gilt == active[index]
                  nongilt == SaturatingSub(totalIssuance, activeTotal.frozen)
                  effective_issuance ==
                      nongilt + PerMul(activeTotal.proportion, nongilt)
                  value == PerMul(gilt.proportion, effective_issuance)
              IN  IF value > gilt.amount
                  THEN /\ reserved'[who] = reserved[who] - gilt.amount
                       /\ free'[who] = free[who] + gilt.amount + (value - gilt.amount)
                       /\ totalIssuance' = totalIssuance + (value - gilt.amount)
                  ELSE IF value < gilt.amount
                  THEN /\ reserved'[who] = reserved[who] - gilt.amount
                       /\ free'[who] = free[who] + value
                       /\ totalIssuance' = totalIssuance - (gilt.amount - value)
                  ELSE /\ reserved'[who] = reserved[who] - gilt.amount
                       /\ free'[who] = free[who] + gilt.amount
                       /\ totalIssuance' = totalIssuance]_vars

\* C3: in every reachable state ActiveTotal.frozen is the sum of the amounts
\* of the live gilts in Active.
C3_FrozenIsSumOfAmounts == activeTotal.frozen = LiveAmounts

\* C3's case: enlarge has issued gilts, thaw has removed one, and a gilt with
\* a positive amount is still live.
C3_Witness ==
    /\ LiveCount >= 1
    /\ activeTotal.index > LiveCount
    /\ activeTotal.frozen > 0

\* C4 as claimed: in every reachable state ActiveTotal.proportion is the sum of
\* the shares of the live gilts, and lies within [0, 1].
C4_ProportionIsSumOfShares ==
    /\ activeTotal.proportion = LiveShares
    /\ activeTotal.proportion \in 0..Accuracy

\* C4 as amended: ActiveTotal.proportion lies within [0, 1] and never exceeds
\* the sum of the shares of the live gilts, and a step that starts with the two
\* equal and ends with the sum of the shares at most 1 leaves them equal (so
\* they are equal until saturating_add first clamps).
C4_ProportionTracksSharesUntilClamped ==
    /\ [](/\ activeTotal.proportion \in 0..Accuracy
          /\ activeTotal.proportion <= LiveShares)
    /\ [][(activeTotal.proportion = LiveShares /\ LiveShares' <= Accuracy)
            => activeTotal.proportion' = LiveShares']_vars

\* C4's case: enlarge has issued gilts, thaw has removed one, and the live
\* gilts hold a positive share that the total still equals.
C4_Witness ==
    /\ LiveCount >= 1
    /\ activeTotal.index > LiveCount
    /\ LiveShares > 0
    /\ activeTotal.proportion = LiveShares

\* C5: a place_bid, retract_bid or thaw call that returns an error leaves the
\* buckets, QueueTotals, ActiveTotal, the live gilts and the reserved balances
\* as they were.
C5_FailedCallChangesNothing ==
    [][failedCall' \in {"place_bid", "retract_bid", "thaw"} =>
          UNCHANGED <<queues, queueTotals, activeTotal, active, reserved>>]_vars

\* C5's case: a call has just returned an error in a state that holds bids,
\* sized QueueTotals, a live gilt and reserved funds.
C5_Witness ==
    /\ failedCall \in {"place_bid", "retract_bid", "thaw"}
    /\ \E d \in 1..QueueCount : Len(queues[d]) > 0
    /\ LiveCount >= 1
    /\ \E w \in Accounts : reserved[w] > 0

\* The bids pending over all buckets: how many, and their total amount.
RECURSIVE PendingCountUpTo(_)
PendingCountUpTo(d) == IF d = 0 THEN 0 ELSE Len(queues[d]) + PendingCountUpTo(d - 1)
PendingCount == PendingCountUpTo(QueueCount)

RECURSIVE PendingAmountUpTo(_)
PendingAmountUpTo(d) ==
    IF d = 0 THEN 0 ELSE SumBids(queues[d]) + PendingAmountUpTo(d - 1)
PendingAmount == PendingAmountUpTo(QueueCount)

Reverse(q) == [k \in 1..Len(q) |-> q[Len(q) + 1 - k]]

\* The gilts a step issues, in the order of their indices.
Issued ==
    [k \in 1..(activeTotal'.index - activeTotal.index) |->
        active'[activeTotal.index + k - 1]]

\* The gilts a step issues from bucket d (they expire Period * d after now), as
\* the bids they were made from, in the order of their indices.
IssuedFrom(d) ==
    LET gilts == SelectSeq(Issued, LAMBDA g : g.expiry = now + Period * d)
    IN  [k \in 1..Len(gilts) |-> GiltBid(gilts[k].amount, gilts[k].who)]

\* C6: place_bid(who, amount, duration) succeeds if and only if the duration is
\* within 1..QueueCount, amount >= MinFreeze, the bucket `duration` itself
\* holds fewer than MaxQueueLen bids and the ledger can reserve amount; on
\* success the bid is the newest of its bucket and amount is reserved.
C6_PlaceBidSucceedsIff ==
    [][\A who \in Accounts, amount \in 1..MaxAmount, duration \in 0..(QueueCount + 1) :
          PlaceBid(who, amount, duration) =>
              LET accepted == /\ 1 <= duration
                              /\ duration <= QueueCount
                              /\ amount >= MinFreeze
                              /\ Len(queues[duration]) < MaxQueueLen
                              /\ free[who] >= amount
              IN  /\ (failedCall' = "None") <=> accepted
                  /\ accepted =>
                        /\ queues' = [queues EXCEPT ![duration] =
                                         <<GiltBid(amount, who)>> \o @]
                        /\ reserved'[who] = reserved[who] + amount]_vars

\* C7: enlarge with a budget of at least the sum of the pending amounts and
\* max_bids of at least the number of pending bids turns every pending bid of
\* every bucket into a gilt: the buckets end empty, the gilts issued from each
\* bucket are its bids, and the call returns the number of pending bids.
C7_EnlargeConvertsEveryBid ==
    [][\A amount \in 0..MaxBudget, max_bids \in 0..MaxBids :
          (/\ Enlarge(amount, max_bids)
           /\ PendingCount > 0
           /\ amount >= PendingAmount
           /\ max_bids >= PendingCount) =>
              /\ \A d \in 1..QueueCount : queues'[d] = <<>>
              /\ \A d \in 1..QueueCount : IssuedFrom(d) = Reverse(queues[d])
              /\ Len(Issued) = PendingCount
              /\ EnlargeResult(amount, max_bids, now).bids_taken = PendingCount]_vars

\* C8: within a bucket enlarge takes the bids oldest first. With a sufficient
\* budget and cap the gilts issued from any bucket d are its bids in the order
\* they were placed; and whatever the budget, the bids enlarge takes from
\* bucket d are its oldest ones (the last of them possibly split) and the newer
\* ones stay pending.
C8_EnlargeTakesOldestFirst ==
    [][\A amount \in 0..MaxBudget, max_bids \in 0..MaxBids, d \in 1..QueueCount :
          Enlarge(amount, max_bids) =>
              LET q == queues[d]
                  taken == IssuedFrom(d)
                  k == Len(taken)
              IN  /\ (amount >= PendingAmount /\ max_bids >= PendingCount)
                        => taken = Reverse(q)
                  /\ k <= Len(q)
                  /\ \A j \in 1..k :
                        /\ taken[j].who = q[Len(q) + 1 - j].who
                        /\ taken[j].amount <= q[Len(q) + 1 - j].amount
                        /\ j < k => taken[j].amount = q[Len(q) + 1 - j].amount
                  /\ Len(queues'[d]) >= Len(q) - k
                  /\ SubSeq(queues'[d], 1, Len(q) - k) = SubSeq(q, 1, Len(q) - k)]_vars

\* C9: a single bid (a, w) placed in any bucket d, followed by enlarge with a
\* budget r, 0 < r < a, and a cap of at least one, yields exactly one gilt of
\* amount r for w and leaves the residual bid (a - r, w) in bucket d.
C9_SplitLeavesResidual ==
    [][\A r \in 1..MaxBudget, max_bids \in 1..MaxBids, d \in 1..QueueCount :
          (/\ Enlarge(r, max_bids)
           /\ Len(queues[d]) = 1
           /\ \A e \in (1..QueueCount) \ {d} : queues[e] = <<>>
           /\ r < queues[d][1].amount) =>
              /\ Len(Issued) = 1
              /\ IssuedFrom(d) = <<GiltBid(r, queues[d][1].who)>>
              /\ queues'[d] = <<GiltBid(queues[d][1].amount - r, queues[d][1].who)>>]_vars

\* C10: enlarge allocates the longest durations first: it issues no gilt from
\* bucket d while a bucket d' > d holds a pending bid, and once the longer
\* buckets are exhausted it goes on with the shorter ones, so that a call that
\* ends with budget and cap to spare leaves no bid pending.
C10_EnlargeLongestFirst ==
    [][\A amount \in 0..MaxBudget, max_bids \in 0..MaxBids :
          Enlarge(amount, max_bids) =>
              /\ \A d \in 1..QueueCount :
                    Len(IssuedFrom(d)) > 0 =>
                        \A e \in (d + 1)..QueueCount : queues'[e] = <<>>
              /\ (/\ ~EnlargePanics
                  /\ amount > SumBids(Issued)
                  /\ max_bids > Len(Issued)) =>
                        \A d \in 1..QueueCount : queues'[d] = <<>>]_vars

\* C11: for every budget and every max_bids >= 0, max_bids = 0 included, one
\* call enlarge(budget, max_bids) issues at most max_bids gilts, the amounts of
\* the gilts it issues sum to at most budget, and it returns the number of
\* gilts it issued.
C11_EnlargeWithinCapAndBudget ==
    [][\A amount \in 0..MaxBudget, max_bids \in 0..MaxBids :
          (Enlarge(amount, max_bids) /\ ~EnlargePanics) =>
              /\ Len(Issued) <= max_bids
              /\ SumBids(Issued) <= amount
              /\ EnlargeResult(amount, max_bids, now).bids_taken = Len(Issued)]_vars

\* C12: enlarge returns 0 and changes no state when nothing is eligible: when
\* no bid is pending in any bucket (also when QueueTotals was never sized, and
\* also on the on_initialize path after set_target raised the target) and when
\* the budget is 0; it never aborts and never issues a gilt of amount 0.
C12_EnlargeIdleWhenNothingEligible ==
    [][/\ failedCall' \notin {"enlarge", "on_initialize"}
       /\ \A i \in (DOMAIN active') \ (DOMAIN active) : active'[i].amount > 0
       /\ \A amount \in 0..MaxBudget, max_bids \in 0..MaxBids :
             (Enlarge(amount, max_bids) /\ (PendingCount = 0 \/ amount = 0)) =>
                 /\ UNCHANGED <<queues, queueTotals, activeTotal, active>>
                 /\ EnlargeResult(amount, max_bids, now).bids_taken = 0
       /\ (OnInitialize /\ PendingCount = 0) =>
             UNCHANGED <<queues, queueTotals, activeTotal, active>>]_vars

\* The gilts a step issues that expire Period * d after the block the step
\* ends in (the block enlarge reads as `now`).
IssuedExpiring(d) == SelectSeq(Issued, LAMBDA g : g.expiry = now' + Period * d)

\* C13: a gilt leaves Active only by a thaw of its owner at a block
\* now >= expiry, where expiry = (block at which enlarge issued it) + Period * d
\* for the bucket d its bid came from; a thaw by the owner at or after the
\* expiry succeeds; and an index once thawed is never live again, a thaw of it
\* returning Unknown.
C13_ThawOnlyByOwnerAfterExpiry ==
    [][/\ \A i \in DOMAIN active :
             IF i \in DOMAIN active'
             THEN active'[i] = active[i]
             ELSE /\ now >= active[i].expiry
                  /\ Thaw(active[i].who, i)
                  /\ failedCall' = "None"
       /\ \A g \in {Issued[k] : k \in 1..Len(Issued)} :
             \E d \in 1..QueueCount : g.expiry = now' + Period * d
       /\ \A d \in 1..QueueCount :
             LET q == queues[d]
                 gilts == IssuedExpiring(d)
                 k == Len(gilts)
             IN  /\ k <= Len(q)
                 /\ \A j \in 1..k : /\ gilts[j].who = q[Len(q) + 1 - j].who
                                    /\ gilts[j].amount <= q[Len(q) + 1 - j].amount
                 /\ k > 0 => Len(queues'[d]) \in {Len(q) - k, Len(q) - k + 1}
       /\ \A who \in Accounts, index \in 0..MaxIndex :
             (/\ Thaw(who, index)
              /\ index \in DOMAIN active
              /\ active[index].who = who
              /\ now >= active[index].expiry) =>
                 /\ failedCall' = "None"
                 /\ index \notin DOMAIN active'
       /\ \A i \in 0..MaxIndex :
             (i < activeTotal.index /\ i \notin DOMAIN active) =>
                 /\ i \notin DOMAIN active'
                 /\ \A who \in Accounts : Thaw(who, i) => failedCall' = "thaw"]_vars

\* C13's case: a gilt was thawed at its expiry, a later thaw was refused, and
\* another gilt is still live.
C13_Witness ==
    /\ activeTotal.index > LiveCount
    /\ LiveCount >= 1
    /\ failedCall = "thaw"
    /\ \A i \in DOMAIN active : now >= active[i].expiry

IntakeProportions == {(k * Accuracy) \div 10 : k \in 0..10}
IntakeIssuances == {100 * k : k \in 1..MaxHundreds}
IntakeBidder == CHOOSE w \in Accounts : TRUE

IntakeInit ==
    /\ totalIssuance \in IntakeIssuances
    /\ activeTotal \in [frozen : {0}, proportion : IntakeProportions,
                        index : {0}, target : Targets]
    /\ queues = [d \in 1..QueueCount |->
                    IF d = QueueCount THEN <<GiltBid(totalIssuance, IntakeBidder)>>
                    ELSE <<>>]
    /\ queueTotals = [d \in 1..QueueCount |->
                         IF d = QueueCount THEN <<1, totalIssuance>> ELSE <<0, 0>>]
    /\ active = <<>>
    /\ free = [w \in Accounts |-> 0]
    /\ reserved = [w \in Accounts |-> IF w = IntakeBidder THEN totalIssuance ELSE 0]
    /\ now = 1
    /\ failedCall = "None"

IntakeNext == OnInitialize

IntakeSpec == IntakeInit /\ [][IntakeNext]_vars

\* The inputs C15 names: proportion = 0.2, target = 0.5, total_issuance = 1000,
\* frozen = 0, at a block whose successor is an intake block.
C15_Inputs ==
    /\ (now + 1) % IntakePeriod = 0
    /\ activeTotal.proportion * 10 = 2 * Accuracy
    /\ activeTotal.target * 10 = 5 * Accuracy
    /\ totalIssuance = 1000
    /\ activeTotal.frozen = 0

C16_IndexNeverReused ==
    /\ [](\A i \in DOMAIN active : i < activeTotal.index)
    /\ [][/\ activeTotal'.index >= activeTotal.index
          /\ (DOMAIN active') \ (DOMAIN active)
                = activeTotal.index..(activeTotal'.index - 1)
          /\ \A i \in (DOMAIN active) \cap (DOMAIN active') : active'[i] = active[i]
          /\ \A i \in 0..(activeTotal.index - 1) :
                i \notin DOMAIN active => i \notin DOMAIN active']_vars

\* C16's case: the first gilt was thawed, and a later gilt, issued in the
\* current block from the last bucket, is live under the next index.
C16_Witness ==
    /\ activeTotal.index = 2
    /\ DOMAIN active = {1}
    /\ active[1].expiry = now + Period * QueueCount
    /\ now > 1 + Period

\* What account w has pending in the buckets and locked in live gilts.
PendingOf(w) ==
    LET OfW(q) == SelectSeq(q, LAMBDA bid : bid.who = w)
        UpTo[d \in 0..QueueCount] ==
            IF d = 0 THEN 0 ELSE SumBids(OfW(queues[d])) + UpTo[d - 1]
    IN  UpTo[QueueCount]

LockedOf(w) == SumAmounts(active, {i \in DOMAIN active : active[i].who = w})

\* C17: in every reachable state each account's reserved balance is the sum of
\* the amounts of its pending bids over all buckets plus the sum of the amounts
\* of its live gilts (so every successful thaw takes exactly the gilt's amount
\* out of the owner's reserve, whichever of the three outcomes applies).
C17_ReservedIsBidsPlusGilts ==
    \A w \in Accounts : reserved[w] = PendingOf(w) + LockedOf(w)

\* C18: in every reachable state no bucket Queues[d] holds more than
\* MaxQueueLen bids.
C18_QueuesWithinMaxQueueLen ==
    \A d \in 1..QueueCount : Len(queues[d]) <= MaxQueueLen

\* C19: every pending bid can be retracted by its bidder. For a bucket d in
\* 1..QueueCount, retract_bid(who, amount, d) succeeds whenever Queues[d] holds
\* the bid (amount, who), the residual of a split included, removes the first
\* such bid and unreserves amount; it fails (NotFound) only when Queues[d]
\* holds no such bid.
C19_PendingBidCanBeRetracted ==
    [][\A who \in Accounts, amount \in 1..MaxAmount, d \in 1..QueueCount :
          RetractBid(who, amount, d) =>
              LET bid == GiltBid(amount, who)
                  pos == Position(queues[d], bid)
              IN  IF pos > 0
                  THEN /\ failedCall' = "None"
                       /\ queues' = [queues EXCEPT ![d] = Remove(@, pos)]
                       /\ reserved'[who] = reserved[who] - amount
                       /\ free'[who] = free[who] + amount
                  ELSE failedCall' = "retract_bid"]_vars

\* C20: a periodic intake never overshoots the target: if proportion < target
\* before on_initialize at an intake block, then proportion <= target after it.
C20_IntakeNeverOvershoots ==
    [][(/\ OnInitialize
        /\ (now + 1) % IntakePeriod = 0
        /\ activeTotal.proportion < activeTotal.target) =>
            activeTotal'.proportion <= activeTotal'.target]_vars
====
